---------------------------- MODULE Spec2Model ----------------------------
(***************************************************************************)
(* A model of extract.py of pearl_kwic: the key-word-in-context extractor  *)
(* of a TEI edition.  A Python str is a sequence of characters, each       *)
(* character a one-token string; an XML document is the sequence of its    *)
(* elements in document order (preorder), each with its depth under the    *)
(* root.                                                                   *)
(***************************************************************************)
EXTENDS Integers, Sequences, FiniteSets

VARIABLES
    xml_file, \* the input: whether it loads, and the elements it holds
    pc,       \* the position of the run
    sink,     \* the file object behind the csv writer
    opens,    \* how many times kwic.csv was opened
    out,      \* the rows written to the sink, in order
    lineNo,   \* the position of enumerate(root.findall(".//tei:l"))
    raw,      \* the text given to the normalizer
    text,     \* the local variable text of extract_kwic
    triples   \* what split_on_words(text) yielded

vars == <<xml_file, pc, sink, opens, out, lineNo, raw, text, triples>>

-----------------------------------------------------------------------------
(* Characters.                                                             *)

NBSP == "nbsp"        \* U+00A0, one character
Thorn == "thorn"      \* U+00FE, one character

LowerCase == {"a", "b", "e", "f", "g", "h", "i", "l", "n", "o", "s", "t",
              "u", "v", "y", Thorn}
UpperCase == {"A", "G", "I", "N"}
Letters == LowerCase \cup UpperCase
Digits == {"1", "2"}

\* str.isspace(): what str.split() and str.strip() take for whitespace
PyWhitespace == {" ", "\n", "\t", NBSP}

\* char.isalpha()
isalpha(char) == char \in Letters

\* str.lower() on one character
LowerChar(char) ==
    CASE char = "A" -> "a"
      [] char = "G" -> "g"
      [] char = "I" -> "i"
      [] char = "N" -> "n"
      [] OTHER -> char

lower(word) == [i \in 1..Len(word) |-> LowerChar(word[i])]

-----------------------------------------------------------------------------
(* str operations.                                                         *)

\* text.replace(old, new) for one-character old and new
replace(s, old, new) == [i \in 1..Len(s) |-> IF s[i] = old THEN new ELSE s[i]]

RECURSIVE lstrip(_)
lstrip(s) ==
    IF s # <<>> /\ Head(s) \in PyWhitespace THEN lstrip(Tail(s)) ELSE s

RECURSIVE rstrip(_)
rstrip(s) ==
    IF s # <<>> /\ s[Len(s)] \in PyWhitespace
    THEN rstrip(SubSeq(s, 1, Len(s) - 1))
    ELSE s

\* str.strip()
strip(s) == rstrip(lstrip(s))

\* the first run of non-whitespace characters of s
RECURSIVE FirstField(_)
FirstField(s) ==
    IF s = <<>> \/ Head(s) \in PyWhitespace
    THEN <<>>
    ELSE <<Head(s)>> \o FirstField(Tail(s))

\* str.split() with no separator: the maximal runs of non-whitespace
RECURSIVE split(_)
split(s) ==
    LET t == lstrip(s) IN
    IF t = <<>>
    THEN <<>>
    ELSE LET f == FirstField(t) IN
         <<f>> \o split(SubSeq(t, Len(f) + 1, Len(t)))

\* sep.join(parts)
RECURSIVE join(_, _)
join(sep, parts) ==
    IF parts = <<>> THEN <<>>
    ELSE IF Len(parts) = 1 THEN parts[1]
    ELSE parts[1] \o sep \o join(sep, Tail(parts))

\* the normalization of extract_kwic
NormalizeNoCollapse(s) == strip(replace(replace(s, "\n", " "), "\t", " "))

Normalize(s) ==
    LET t1 == replace(replace(s, "\n", " "), "\t", " ")
        t2 == join(<<" ">>, split(t1))
    IN  strip(t2)

-----------------------------------------------------------------------------
(* uniseg.wordbreak.words: the word boundaries of UAX #29 over the         *)
(* character classes below.                                                *)

ALetter == Letters
Numeric == Digits
MidNumLetQ == {"'"}          \* MidNumLet and Single_Quote
MidNum == {","}
WSegSpace == {" "}
\* "\n" is LF; "\t", NBSP, "&" have no class (Other)

\* whether s has no word boundary between s[i] and s[i+1]
NoBreak(s, i) ==
    LET a == s[i]
        b == s[i + 1]
        hasPrev == i > 1
        hasNext == i + 2 <= Len(s)
    IN  \/ a \in WSegSpace /\ b \in WSegSpace                        \* WB3d
        \/ a \in ALetter /\ b \in ALetter                            \* WB5
        \/ a \in ALetter /\ b \in MidNumLetQ
              /\ hasNext /\ s[i + 2] \in ALetter                     \* WB6
        \/ a \in MidNumLetQ /\ b \in ALetter
              /\ hasPrev /\ s[i - 1] \in ALetter                     \* WB7
        \/ a \in Numeric /\ b \in Numeric                            \* WB8
        \/ a \in ALetter /\ b \in Numeric                            \* WB9
        \/ a \in Numeric /\ b \in ALetter                            \* WB10
        \/ a \in (MidNum \cup MidNumLetQ) /\ b \in Numeric
              /\ hasPrev /\ s[i - 1] \in Numeric                     \* WB11
        \/ a \in Numeric /\ b \in (MidNum \cup MidNumLetQ)
              /\ hasNext /\ s[i + 2] \in Numeric                     \* WB12

\* the end of the span of s that starts at position from
RECURSIVE SpanEnd(_, _)
SpanEnd(s, from) ==
    IF from < Len(s) /\ NoBreak(s, from) THEN SpanEnd(s, from + 1) ELSE from

RECURSIVE WordsFrom(_, _)
WordsFrom(s, from) ==
    IF from > Len(s) THEN <<>>
    ELSE LET e == SpanEnd(s, from) IN
         <<SubSeq(s, from, e)>> \o WordsFrom(s, e + 1)

words(s) == WordsFrom(s, 1)

-----------------------------------------------------------------------------
(* contains_alphabetic, split_on_words.                                    *)

containsAllAlphabetic(t) == \A i \in 1..Len(t) : isalpha(t[i])

contains_alphabetic(t) == \E i \in 1..Len(t) : isalpha(t[i])

\* words[i + 1:] of the code, with 1-based i
RightOfOffByOne(ws, i) == join(<<>>, SubSeq(ws, i, Len(ws)))

RightOf(ws, i) == join(<<>>, SubSeq(ws, i + 1, Len(ws)))

LeftOf(ws, i) == join(<<>>, SubSeq(ws, 1, i - 1))

RECURSIVE SplitFrom(_, _)
SplitFrom(ws, i) ==
    IF i > Len(ws) THEN <<>>
    ELSE LET left_context == LeftOf(ws, i)
             right_context == RightOf(ws, i)
             rest == SplitFrom(ws, i + 1)
         IN  IF contains_alphabetic(ws[i])
             THEN <<[left |-> left_context, word |-> ws[i],
                     right |-> right_context]>> \o rest
             ELSE rest

split_on_words(t) == SplitFrom(words(t), 1)

-----------------------------------------------------------------------------
(* Elements.  A document is the sequence of the elements under its root in *)
(* document order; an element is [tag, text, tail, depth], depth 1 for a   *)
(* child of the root.  A missing text or tail (None) and an empty one are  *)
(* both <<>>: the code tests them by truth value only.                     *)

TEI_persName == "{http://www.tei-c.org/ns/1.0}persName"
TEI_placeName == "{http://www.tei-c.org/ns/1.0}placeName"
TEI_foreign == "{http://www.tei-c.org/ns/1.0}foreign"
TEI_date == "{http://www.tei-c.org/ns/1.0}date"
TEI_l == "{http://www.tei-c.org/ns/1.0}l"
TEI_note == "{http://www.tei-c.org/ns/1.0}note"
TEI_gloss == "{http://www.tei-c.org/ns/1.0}gloss"
TEI_space == "{http://www.tei-c.org/ns/1.0}space"

keep_tags == {TEI_persName, TEI_placeName, TEI_foreign, TEI_date, TEI_l}

\* the last index of the subtree of element i
RECURSIVE SubtreeEnd(_, _, _)
SubtreeEnd(d, i, j) ==
    IF j < Len(d) /\ d[j + 1].depth > d[i].depth
    THEN SubtreeEnd(d, i, j + 1)
    ELSE j

\* j is any element below i
IsDescendant(d, i, j) == i < j /\ j <= SubtreeEnd(d, i, i)

\* j is one of the elements `for child in line_element` visits
IsChild(d, i, j) ==
    /\ i < j
    /\ j <= SubtreeEnd(d, i, i)
    /\ d[j].depth = d[i].depth + 1

\* the parts one child appends to text_parts
ChildParts(child) ==
    (IF child.tag \in keep_tags /\ child.text # <<>>
     THEN <<strip(child.text)>> ELSE <<>>)
    \o (IF child.tail # <<>> THEN <<strip(child.tail)>> ELSE <<>>)

\* the loop over the children of element i, from element j on
RECURSIVE ChildLoop(_, _, _)
ChildLoop(d, i, j) ==
    IF j > Len(d) THEN <<>>
    ELSE (IF IsChild(d, i, j) THEN ChildParts(d[j]) ELSE <<>>)
         \o ChildLoop(d, i, j + 1)

IsTruthy(part) == part # <<>>

extract_text(d, i) ==
    LET text_parts ==
            (IF d[i].text # <<>> THEN <<strip(d[i].text)>> ELSE <<>>)
            \o ChildLoop(d, i, i + 1)
    IN  join(<<" ">>, SelectSeq(text_parts, IsTruthy))

\* root.findall("tei:l"): the children of the root only
RECURSIVE FindChildrenFrom(_, _)
FindChildrenFrom(d, i) ==
    IF i > Len(d) THEN <<>>
    ELSE (IF d[i].tag = TEI_l /\ d[i].depth = 1 THEN <<i>> ELSE <<>>)
         \o FindChildrenFrom(d, i + 1)

\* root.findall(".//tei:l"): every line element below the root, in
\* document order
RECURSIVE FindAllFrom(_, _)
FindAllFrom(d, i) ==
    IF i > Len(d) THEN <<>>
    ELSE (IF d[i].tag = TEI_l THEN <<i>> ELSE <<>>) \o FindAllFrom(d, i + 1)

findall_direct(d) == FindChildrenFrom(d, 1)

findall(d) == FindAllFrom(d, 1)

-----------------------------------------------------------------------------
(* The rows.                                                               *)

SearchPrefix ==
    "https://quod.lib.umich.edu/m/middle-english-dictionary/dictionary?utf8=%E2%9C%93&search_field=hnf&q="
LineRefPrefix ==
    "[Pearl](https://metseditions.org/editions/RZ5r80ETbe1cKVpHvm1RUl9eMrNR8l): "

create_search_link(word) == <<SearchPrefix>> \o word

create_word_reference(word) ==
    <<"[">> \o word \o <<"](">> \o create_search_link(word) \o <<")">>

create_line_reference(line_number) == <<LineRefPrefix, line_number>>

HeaderRow ==
    [header |-> TRUE,
     cells |-> <<"line_number", "reference", "left_context", "word",
                 "right_context", "word_reference", "word_lower">>]

DataRow(line_number, t) ==
    [header |-> FALSE,
     line_number |-> line_number,
     reference |-> create_line_reference(line_number),
     left_context |-> t.left,
     word |-> t.word,
     right_context |-> t.right,
     word_reference |-> create_word_reference(t.word),
     word_lower |-> lower(t.word)]

RowsOf(line_number, ts) == [k \in 1..Len(ts) |-> DataRow(line_number, ts[k])]

-----------------------------------------------------------------------------
(* The inputs.                                                             *)

MaxNodes == 3     \* elements of a document given to extract_kwic
MaxInline == 2    \* elements below the line given to extract_text
MaxLen == 4       \* characters of a text given to the normalizer

NoElements == <<>>

Element(tag, txt, tail, depth) ==
    [tag |-> tag, text |-> txt, tail |-> tail, depth |-> depth]

\* the depths are those of a sequence of elements in document order, the
\* first one at depth top
InDocumentOrder(d, top) ==
    \/ d = <<>>
    \/ /\ d[1].depth = top
       /\ \A i \in 1..(Len(d) - 1) :
             d[i + 1].depth >= top /\ d[i + 1].depth <= d[i].depth + 1

\* the sequences of at most n elements drawn from choices, at depth top
\* and below
Forests(choices, top, n) ==
    UNION {{d \in [1..m -> {Element(e.tag, e.text, e.tail, k) :
                               e \in choices, k \in top..(top + m - 1)}] :
               InDocumentOrder(d, top)} : m \in 0..n}

DocChoices ==
    [tag : {TEI_l}, text : {<<>>, <<"A", "'", "s", " ", "1">>},
     tail : {<<>>, <<"b", "\n">>}]
    \cup {Element(TEI_date, <<"e">>, <<>>, 0),
          Element(TEI_note, <<"n">>, <<"b", "\n">>, 0)}

Documents(n) == Forests(DocChoices, 1, n)

Loadable(d) == [status |-> "ok", nodes |-> d]
Unloadable == {[status |-> "missing", nodes |-> NoElements],
               [status |-> "malformed", nodes |-> NoElements]}

Idle ==
    /\ sink = "unopened"
    /\ opens = 0
    /\ out = <<>>
    /\ lineNo = 0
    /\ raw = <<>>
    /\ text = <<>>
    /\ triples = <<>>

-----------------------------------------------------------------------------
(* extract_kwic.                                                           *)

Init ==
    /\ xml_file \in {Loadable(d) : d \in Documents(MaxNodes)} \cup Unloadable
    /\ pc = "start"
    /\ Idle

\* kwic.csv opened before the document is parsed
ParseAfterOpen ==
    /\ pc = "start"
    /\ IF xml_file.status = "ok"
       THEN /\ pc' = "parsed"
            /\ UNCHANGED <<sink, opens>>
       ELSE /\ pc' = "aborted"
            /\ sink' = "open"
            /\ opens' = opens + 1
    /\ UNCHANGED <<xml_file, out, lineNo, raw, text, triples>>

\* ET.parse(xml_file); tree.getroot()
Parse ==
    /\ pc = "start"
    /\ pc' = IF xml_file.status = "ok" THEN "parsed" ELSE "aborted"
    /\ UNCHANGED <<xml_file, sink, opens, out, lineNo, raw, text, triples>>

\* csv.writer(open("kwic.csv", "w", newline=""))
OpenSink ==
    /\ pc = "parsed"
    /\ sink' = "open"
    /\ opens' = opens + 1
    /\ out' = <<>>
    /\ pc' = "opened"
    /\ UNCHANGED <<xml_file, lineNo, raw, text, triples>>

\* the header row
WriteHeader ==
    /\ pc = "opened"
    /\ out' = Append(out, HeaderRow)
    /\ lineNo' = 0
    /\ pc' = "loop"
    /\ UNCHANGED <<xml_file, sink, opens, raw, text, triples>>

\* enumerate() counting from 1
LineNumberFromOne(k) == k + 1

\* the line_number enumerate() gives the line at position k
LineNumber(k) == k

\* one pass of the loop over the lines
ProcessLine ==
    /\ pc = "loop"
    /\ lineNo < Len(findall(xml_file.nodes))
    /\ LET line == findall(xml_file.nodes)[lineNo + 1]
           flat == extract_text(xml_file.nodes, line)
           norm == Normalize(flat)
           ts == split_on_words(norm)
       IN  /\ raw' = flat
           /\ text' = norm
           /\ triples' = ts
           /\ out' = out \o RowsOf(LineNumber(lineNo), ts)
    /\ lineNo' = lineNo + 1
    /\ UNCHANGED <<xml_file, pc, sink, opens>>

\* the loop ends and extract_kwic returns; nothing closes the file
Return ==
    /\ pc = "loop"
    /\ lineNo = Len(findall(xml_file.nodes))
    /\ pc' = "done"
    /\ UNCHANGED <<xml_file, sink, opens, out, lineNo, raw, text, triples>>

\* writer.writerow raises (the disk is full, ...) while a line is written
WriteError ==
    /\ pc = "loop"
    /\ lineNo < Len(findall(xml_file.nodes))
    /\ pc' = "aborted"
    /\ UNCHANGED <<xml_file, sink, opens, out, lineNo, raw, text, triples>>

\* the file object, never closed by the code, is closed if and when the
\* interpreter collects it
Finalize ==
    /\ pc \in {"done", "aborted"}
    /\ sink = "open"
    /\ sink' = "closed"
    /\ UNCHANGED <<xml_file, pc, opens, out, lineNo, raw, text, triples>>

Next ==
    \/ Parse
    \/ OpenSink
    \/ WriteHeader
    \/ ProcessLine
    \/ Return
    \/ WriteError
    \/ Finalize

Spec == Init /\ [][Next]_vars

-----------------------------------------------------------------------------
(* What the properties are stated with.                                    *)

Nodes == xml_file.nodes

\* the line elements of the document
LineSet == {i \in 1..Len(Nodes) : Nodes[i].tag = TEI_l}

\* the 0-based position of line i among all line elements
PositionOf(i) == Cardinality({j \in LineSet : j < i})

\* the element that holds element j, 0 for a child of the root
ParentOf(j) ==
    LET above == {i \in 1..(j - 1) : Nodes[i].depth < Nodes[j].depth} IN
    IF above = {} THEN 0 ELSE CHOOSE i \in above : \A k \in above : k <= i

\* the tags whose text the specification keeps
AllowList == {TEI_persName, TEI_placeName, TEI_foreign, TEI_date, TEI_l}

HasLetter(w) == \E i \in 1..Len(w) : w[i] \in Letters

\* the spans with a letter of the normalized fragment t, in order
AlphaWords(t) == SelectSeq(words(Normalize(t)), HasLetter)

DataRows == {k \in 1..Len(out) : ~out[k].header}

RowsUnder(n) == {k \in DataRows : out[k].line_number = n}

Exited == pc \in {"done", "aborted"}

-----------------------------------------------------------------------------
(* C5: in every run the output sink is acquired once and is closed on      *)
(* every exit path: once extract_kwic has returned or has aborted after    *)
(* opening kwic.csv, the file is closed.                                   *)
SinkReleasedOnExit ==
    /\ opens <= 1
    /\ (Exited /\ opens = 1) => sink = "closed"

-----------------------------------------------------------------------------
(* C6: the output is the header row, once and first, then the data rows    *)
(* grouped by line in document order and in segment order within a line;   *)
(* a row's line_number is the 0-based position of its line among all line  *)
(* elements, so a line without rows still takes its number, and            *)
(* line_number never decreases along the output.                           *)
OutputOrdered ==
    /\ pc \in {"loop", "done"} => Len(out) >= 1
    /\ out # <<>> => out[1].header
    /\ \A k \in 2..Len(out) : ~out[k].header
    /\ \A j, k \in DataRows :
          j < k =>
            \/ out[j].line_number < out[k].line_number
            \/ /\ out[j].line_number = out[k].line_number
               /\ Len(out[j].left_context) < Len(out[k].left_context)
    /\ \A k \in DataRows :
          \E i \in LineSet :
             /\ PositionOf(i) = out[k].line_number
             /\ PositionOf(i) < lineNo
             /\ HasLetter(out[k].word)
             /\ out[k].left_context \o out[k].word \o out[k].right_context
                   = Normalize(extract_text(Nodes, i))
    /\ \A i \in LineSet :
          PositionOf(i) < lineNo =>
             Cardinality(RowsUnder(PositionOf(i)))
                = Len(AlphaWords(extract_text(Nodes, i)))

\* a finished run in which the first line gave no row and a later one did
EmptyLineTakesItsNumber ==
    /\ pc = "done"
    /\ RowsUnder(0) = {}
    /\ \E k \in DataRows : out[k].line_number >= 1

-----------------------------------------------------------------------------
(* C8: when the document cannot be loaded, extract_kwic aborts before the  *)
(* sink is opened: kwic.csv is neither created nor truncated, and neither  *)
(* the header nor a data row is written.                                   *)
LoadFailureWritesNothing ==
    (xml_file.status # "ok" /\ pc # "start") =>
        /\ pc = "aborted"
        /\ sink = "unopened"
        /\ opens = 0
        /\ out = <<>>

LoadFailed == xml_file.status # "ok" /\ pc = "aborted"

-----------------------------------------------------------------------------
(* Nested lines and the word occurrences of a document.                    *)

NestedLines ==
    {c \in LineSet : ParentOf(c) \in LineSet /\ AlphaWords(Nodes[c].text) # <<>>}

\* the word occurrences of the fragments of element j that extract_text
\* reads for some line: the text of a line, the text of a kept child of a
\* line, the tail of a child of a line
OccurrencesAt(j) ==
    LET e == Nodes[j]
        inLine == ParentOf(j) \in LineSet
    IN  (IF e.tag = TEI_l \/ (inLine /\ e.tag \in AllowList)
         THEN Len(AlphaWords(e.text)) ELSE 0)
        + (IF inLine THEN Len(AlphaWords(e.tail)) ELSE 0)

RECURSIVE OccurrencesUpTo(_)
OccurrencesUpTo(j) ==
    IF j = 0 THEN 0 ELSE OccurrencesAt(j) + OccurrencesUpTo(j - 1)

WordOccurrences == OccurrencesUpTo(Len(Nodes))

-----------------------------------------------------------------------------
-----------------------------------------------------------------------------
(* extract_text on one line element: the line is element 1, the elements   *)
(* below it follow.                                                        *)

InlineChoices ==
    [tag : {TEI_date, TEI_l, TEI_note},
     text : {<<>>, <<"\n", "e", " ">>},
     tail : {<<>>, <<"\n", " ">>, <<" ", "b">>}]

LineChoices ==
    {Element(TEI_l, t, <<>>, 1) : t \in {<<>>, <<" ", "\n">>, <<" ", "a">>}}

\* the second example of the docstring of extract_text
ExampleLine ==
    << Element(TEI_l, <<>>, <<>>, 1),
       Element(TEI_space, <<>>, <<"I", "n", " ">>, 2),
       Element(TEI_date, <<"A", "u", "g", "o", "s", "t", "e">>,
               <<" ", "i", "n", " ", "a", " ", "h", "y", "g", "h", " ",
                 "s", "e", "y", "s", "o", "u", "n">>, 2),
       Element(TEI_note, <<"N">>, <<"\n", " ", " ">>, 2),
       Element(TEI_note, <<"G">>, <<>>, 2),
       Element(TEI_space, <<>>, <<>>, 2),
       Element(TEI_gloss, <<"f", "e", "s", "t", "i", "v", "a", "l">>, <<>>, 2) >>

LineElements(n) ==
    {<<line>> \o below : line \in LineChoices,
                         below \in Forests(InlineChoices, 2, n)}
    \cup {ExampleLine}

InitText ==
    /\ xml_file \in {Loadable(d) : d \in LineElements(MaxInline)}
    /\ pc = "element"
    /\ Idle

\* text = extract_text(line)
FlattenLine ==
    /\ pc = "element"
    /\ raw' = extract_text(xml_file.nodes, 1)
    /\ text' = raw'
    /\ pc' = "flattened"
    /\ UNCHANGED <<xml_file, sink, opens, out, lineNo, triples>>

NextText == FlattenLine

SpecText == InitText /\ [][NextText]_vars

-----------------------------------------------------------------------------
\* the text the docstring gives for its second example
ExampleText ==
    <<"I", "n", " ", "A", "u", "g", "o", "s", "t", "e", " ", "i", "n", " ",
      "a", " ", "h", "y", "g", "h", " ", "s", "e", "y", "s", "o", "u", "n",
      " ", "f", "e", "s", "t", "i", "v", "a", "l">>

-----------------------------------------------------------------------------
(* C3: the docstring's example: the line with a space child (tail "In"), a *)
(* date child (text "Augoste", tail "in a hygh seysoun"), two note         *)
(* children ("N", "G"), a space child and a gloss child ("festival")       *)
(* flattens to "In Augoste in a hygh seysoun festival".                    *)
DocstringExampleFlattened ==
    (pc = "flattened" /\ Nodes = ExampleLine) => text = ExampleText

-----------------------------------------------------------------------------
(* The fragments of a line, read off the elements.                         *)

\* the direct children of element 1, in order
DirectChildren ==
    SelectSeq([j \in 1..Len(Nodes) |-> j], LAMBDA j : ParentOf(j) = 1)

Fragments ==
    LET kids == DirectChildren IN
    <<Nodes[1].text>> \o
    [m \in 1..(2 * Len(kids)) |->
        LET kid == Nodes[kids[(m + 1) \div 2]] IN
        IF m % 2 = 1
        THEN (IF kid.tag \in AllowList THEN kid.text ELSE <<>>)
        ELSE kid.tail]

Blank(t) == \A i \in 1..Len(t) : t[i] \in PyWhitespace

\* t without its leading and trailing whitespace
Stripped(t) ==
    IF Blank(t) THEN <<>>
    ELSE LET first == CHOOSE i \in 1..Len(t) :
                         t[i] \notin PyWhitespace
                         /\ \A k \in 1..(i - 1) : t[k] \in PyWhitespace
             last == CHOOSE i \in 1..Len(t) :
                         t[i] \notin PyWhitespace
                         /\ \A k \in (i + 1)..Len(t) : t[k] \in PyWhitespace
         IN  SubSeq(t, first, last)

RECURSIVE SpaceJoined(_)
SpaceJoined(parts) ==
    IF parts = <<>> THEN <<>>
    ELSE IF Len(parts) = 1 THEN Stripped(parts[1])
    ELSE Stripped(parts[1]) \o <<" ">> \o SpaceJoined(Tail(parts))

-----------------------------------------------------------------------------
-----------------------------------------------------------------------------
(* The steps extract_kwic takes on the text of one line.                   *)

LineAlphabet == {"a", Thorn, "1", "'", "&", " ", "\n", "\t", NBSP}

Texts(n) == UNION {[1..m -> LineAlphabet] : m \in 0..n}

InitLine ==
    /\ xml_file = Loadable(NoElements)
    /\ pc = "flattened"
    /\ sink = "unopened"
    /\ opens = 0
    /\ out = <<>>
    /\ lineNo = 0
    /\ raw \in Texts(MaxLen)
    /\ text = raw
    /\ triples = <<>>

\* the three assignments to text after extract_text
NormalizeText ==
    /\ pc = "flattened"
    /\ text' = Normalize(text)
    /\ pc' = "normalized"
    /\ UNCHANGED <<xml_file, sink, opens, out, lineNo, raw, triples>>

\* split_on_words(text)
SplitText ==
    /\ pc = "normalized"
    /\ triples' = split_on_words(text)
    /\ pc' = "split"
    /\ UNCHANGED <<xml_file, sink, opens, out, lineNo, raw, text>>

\* one row for each triple
WriteRows ==
    /\ pc = "split"
    /\ out' = out \o RowsOf(LineNumber(lineNo), triples)
    /\ pc' = "written"
    /\ UNCHANGED <<xml_file, sink, opens, lineNo, raw, text, triples>>

NextLine ==
    \/ NormalizeText
    \/ SplitText
    \/ WriteRows

SpecLine == InitLine /\ [][NextLine]_vars

Spans == words(text)

RECURSIVE Concat(_)
Concat(parts) == IF parts = <<>> THEN <<>> ELSE Head(parts) \o Concat(Tail(parts))

-----------------------------------------------------------------------------
(* C1: every triple (L, W, R) split_on_words yields for a normalized text  *)
(* is that of some span i of its segmentation: W is the span, L the spans  *)
(* before it and R the spans after it, concatenated; and L + W + R is the  *)
(* text.                                                                   *)
ContextComplete ==
    pc \in {"split", "written"} =>
        \A k \in 1..Len(triples) :
           LET t == triples[k] IN
           /\ t.left \o t.word \o t.right = text
           /\ \E i \in 1..Len(Spans) :
                 /\ t.word = Spans[i]
                 /\ t.left = Concat(SubSeq(Spans, 1, i - 1))
                 /\ t.right = Concat(SubSeq(Spans, i + 1, Len(Spans)))

\* a split text with a word between two non-empty contexts
WordInContext ==
    /\ pc = "split"
    /\ \E k \in 1..Len(triples) :
          triples[k].left # <<>> /\ triples[k].right # <<>>

-----------------------------------------------------------------------------
(* C2: a span is emitted as a word iff it holds a letter: a text with N    *)
(* such spans gives exactly N rows, in segment order, and no span of       *)
(* digits, punctuation or whitespace alone is the word of a row.           *)
AlphabeticFilter ==
    /\ pc \in {"split", "written"} =>
          /\ Len(triples) = Cardinality({i \in 1..Len(Spans) : HasLetter(Spans[i])})
          /\ [k \in 1..Len(triples) |-> triples[k].word]
                = SelectSeq(Spans, HasLetter)
    /\ pc = "written" =>
          /\ Len(out) = Len(SelectSeq(Spans, HasLetter))
          /\ \A k \in 1..Len(out) :
                /\ out[k].word = SelectSeq(Spans, HasLetter)[k]
                /\ HasLetter(out[k].word)

\* rows written for a text that also has a span without a letter that is
\* not whitespace, and a word with a character that is not a letter
MixedSpansWritten ==
    /\ pc = "written"
    /\ out # <<>>
    /\ \E i \in 1..Len(Spans) : ~HasLetter(Spans[i]) /\ ~Blank(Spans[i])
    /\ \E k \in 1..Len(out) : \E i \in 1..Len(out[k].word) :
          out[k].word[i] \notin Letters

-----------------------------------------------------------------------------
(* The query of a search link.                                             *)

\* the unreserved characters of RFC 3986 among the model's characters
Unreserved == (Letters \ {Thorn}) \cup Digits
PercentEscapes == {"%27", "%26", "%C3%BE"}

\* the part of a word_reference after q=, up to the closing parenthesis
QueryOf(ref) ==
    LET p == CHOOSE i \in 1..Len(ref) : ref[i] = SearchPrefix IN
    SubSeq(ref, p + 1, Len(ref) - 1)

-----------------------------------------------------------------------------
(* C4: the URL of word_reference carries the word percent-encoded in q: no *)
(* reserved or non-URL-safe character of the word is in it unescaped.      *)
WordEscapedInURL ==
    pc = "written" =>
        \A k \in 1..Len(out) :
           LET q == QueryOf(out[k].word_reference) IN
           \A i \in 1..Len(q) : q[i] \in Unreserved \cup PercentEscapes

-----------------------------------------------------------------------------
(* C7: the normalizer applied to its own output returns it unchanged:      *)
(* a normalized text has no leading or trailing space, no newline or tab,  *)
(* and no two adjacent spaces.                                             *)
NormalizeIdempotent ==
    pc \in {"normalized", "split", "written"} =>
        /\ Normalize(text) = text
        /\ text # <<>> => (text[1] # " " /\ text[Len(text)] # " ")
        /\ \A i \in 1..Len(text) : text[i] \notin {"\n", "\t"}
        /\ \A i \in 1..(Len(text) - 1) : ~(text[i] = " " /\ text[i + 1] = " ")

\* a normalized text whose input had a run of whitespace between two words
WhitespaceCollapsed ==
    /\ pc = "normalized"
    /\ \E i \in 1..(Len(raw) - 1) :
          raw[i] \in PyWhitespace /\ raw[i + 1] \in PyWhitespace
    /\ \E i \in 1..Len(text) : text[i] = " "

=============================================================================
